---- MODULE Spec2Model ----
(***************************************************************************)
(* Model of rendering/_core.py: the process-wide source accumulator        *)
(* __code__, the declaration decorators kernel_function, kernel_main and   *)
(* kernel_struct, and the two-stage Dispatcher (indexing stage             *)
(* __getitem__, call stage dispatch_call) with its lazily built program.   *)
(*                                                                         *)
(* Text is modelled as sequences of tokens.  Python values are modelled    *)
(* as records with a "kind" field.  The device compiler and the command    *)
(* queue are the pyopencl collaborators: the compiler is a function of     *)
(* the submitted source, the queue is the ordered list of submissions.     *)
(***************************************************************************)
EXTENDS Integers, Sequences, FiniteSets, TLC

VARIABLES code, registry, dispatchers, program, compiles, fns, queue, last,
          inflight

vars == <<code, registry, dispatchers, program, compiles, fns, queue, last,
          inflight>>

-----------------------------------------------------------------------------
(* Bounds of the model. *)

MaxDecls == 2
MaxFns == 2
MaxQueue == 1
MaxBuilds == 2
MaxContexts == 2

-----------------------------------------------------------------------------
(* Annotations.  kind is "empty" (inspect.Signature.empty: no annotation), *)
(* "none" (None), "dtype" (a numpy type descriptor, named), "str" (an      *)
(* object type such as 'image2d_t') or "list" (elems holds the elements,   *)
(* each of kind "dtype", "str" or "list").                                 *)

NoElems == <<>>

Empty == [kind |-> "empty", name |-> "", elems |-> NoElems]
None == [kind |-> "none", name |-> "", elems |-> NoElems]
Dtype(n) == [kind |-> "dtype", name |-> n, elems |-> NoElems]
Str(n) == [kind |-> "str", name |-> n, elems |-> NoElems]
List(es) == [kind |-> "list", name |-> "", elems |-> es]

Elem(k, n) == [kind |-> k, name |-> n, elems |-> NoElems]

image2d_t == Str("image2d_t")

(* A resolution result: the type text, or the exception raised. *)
Ok(t) == [ok |-> TRUE, text |-> t, exc |-> ""]
Raise(e) == [ok |-> FALSE, text |-> <<>>, exc |-> e]

(* cltools.dtype_to_ctype: the C name of a numpy type descriptor; a        *)
(* descriptor that is no known or registered dtype raises.                 *)
dtype_to_ctype(a, reg) ==
  IF a.kind = "dtype" /\ a.name = "float32" THEN Ok(<<"float">>)
  ELSE IF a.kind = "dtype" /\ a.name = "int32" THEN Ok(<<"int">>)
  ELSE IF a.kind = "dtype" /\ a.name = "float4" THEN Ok(<<"float4">>)
  ELSE IF a.kind = "dtype" /\ (\E r \in reg : r.name = a.name) THEN Ok(<<a.name>>)
  ELSE Raise("ValueError")

(* _get_annotation_as_cltype: the kernel-language type text of an         *)
(* annotation.  The object-type return comes before the pointer check.     *)
_get_annotation_as_cltype(annotation, assert_no_pointer, reg) ==
  IF annotation.kind = "none" THEN Ok(<<"void">>)
  ELSE IF annotation.kind = "list" /\ Len(annotation.elems) # 1
    THEN Raise("AssertionError")
  ELSE
    LET is_pointer == annotation.kind = "list"
        a == IF is_pointer THEN annotation.elems[1] ELSE annotation
    IN  IF a.kind = "str" THEN Ok(<<"read_write", a.name>>)
        ELSE IF assert_no_pointer /\ is_pointer THEN Raise("AssertionError")
        ELSE LET c == dtype_to_ctype(a, reg)
             IN  IF ~c.ok THEN c
                 ELSE Ok((IF is_pointer THEN <<"__global">> ELSE <<>>)
                         \o c.text
                         \o (IF is_pointer THEN <<"*">> ELSE <<>>))

(* A declared function f: [name, params, ret, doc]; params is a sequence   *)
(* of [name, ann].  _get_signature asserts every parameter is annotated.   *)
Param(n, a) == [name |-> n, ann |-> a]
Def(n, ps, r, d) == [name |-> n, params |-> ps, ret |-> r, doc |-> d]

(* A variant that returns the signature without the annotation check. *)
_get_signature_unchecked(f) ==
  [ok |-> TRUE, exc |-> "", s |-> f.params, return_annotation |-> f.ret]

_get_signature(f) ==
  IF \A i \in 1..Len(f.params) : f.params[i].ann # Empty
  THEN [ok |-> TRUE, exc |-> "", s |-> f.params, return_annotation |-> f.ret]
  ELSE [ok |-> FALSE, exc |-> "AssertionError", s |-> <<>>, return_annotation |-> Empty]

-----------------------------------------------------------------------------
(* The source accumulator __code__ is a sequence of declaration texts; the *)
(* first is the fixed preamble.                                            *)

Decl(k, n, r, ps, b) == [kind |-> k, name |-> n, ret |-> r, params |-> ps, body |-> b]

Preamble == Decl("preamble", "float4x4", <<>>, <<>>, "ok")

(* The names the preamble defines. *)
PreambleNames == {"transpose", "mul"}

(* The first exception of a sequence of resolution results, "" if none. *)
RECURSIVE FirstExc(_)
FirstExc(rs) ==
  IF rs = <<>> THEN ""
  ELSE IF ~rs[1].ok THEN rs[1].exc
  ELSE FirstExc(Tail(rs))

(* The parameter list text of a signature s. *)
ParamTexts(s, assert_no_pointer, reg) ==
  [i \in 1..Len(s) |-> _get_annotation_as_cltype(s[i].ann, assert_no_pointer, reg)]

ParamDecls(s, texts) ==
  [i \in 1..Len(s) |-> [type |-> texts[i].text, name |-> s[i].name]]

(* The text kernel_function appends for f, or the exception it raises      *)
(* before appending: the return type is formatted first, then the          *)
(* parameters in order.                                                    *)
FunctionText(f, reg) ==
  LET sig == _get_signature(f)
      rt == _get_annotation_as_cltype(sig.return_annotation, TRUE, reg)
      pts == ParamTexts(sig.s, TRUE, reg)
      exc == FirstExc(<<rt>> \o pts)
  IN  IF ~sig.ok THEN [ok |-> FALSE, exc |-> sig.exc, decl |-> Preamble]
      ELSE IF exc # "" THEN [ok |-> FALSE, exc |-> exc, decl |-> Preamble]
      ELSE [ok |-> TRUE, exc |-> "",
            decl |-> Decl("function", f.name, rt.text, ParamDecls(sig.s, pts), f.doc)]

(* The text kernel_main appends for f, or the exception it raises before   *)
(* appending.                                                              *)
KernelText(f, reg) ==
  LET sig == _get_signature(f)
      pts == ParamTexts(sig.s, FALSE, reg)
      exc == FirstExc(pts)
  IN  IF ~sig.ok THEN [ok |-> FALSE, exc |-> sig.exc, decl |-> Preamble]
      ELSE IF sig.return_annotation # Empty
        THEN [ok |-> FALSE, exc |-> "AssertionError", decl |-> Preamble]
      ELSE IF exc # "" THEN [ok |-> FALSE, exc |-> exc, decl |-> Preamble]
      ELSE [ok |-> TRUE, exc |-> "",
            decl |-> Decl("kernel", f.name, <<"void">>, ParamDecls(sig.s, pts), f.doc)]

(* A struct declaration cls: [name, members]; a member is [name, private,  *)
(* ann, indict]: private when its name begins with "_", ann its annotation *)
(* (Empty when it has none), indict when it is a key of cls.__dict__ (it   *)
(* is assigned a value or is a method).                                    *)
Member(n, p, a, d) == [name |-> n, private |-> p, ann |-> a, indict |-> d]
Cls(n, ms) == [name |-> n, members |-> ms]

(* cls.__dict__['__annotations__']: the annotated members, in order. *)
RECURSIVE Annotated(_)
Annotated(ms) ==
  IF ms = <<>> THEN <<>>
  ELSE IF ms[1].ann # Empty THEN <<ms[1]>> \o Annotated(Tail(ms))
  ELSE Annotated(Tail(ms))

(* The text kernel_struct appends for cls, or the exception it raises      *)
(* before appending.  The layout takes every annotated member.             *)
StructText(cls, reg) ==
  LET fields == Annotated(cls.members)
      types == [i \in 1..Len(fields) |-> dtype_to_ctype(fields[i].ann, reg)]
  IN  IF fields = <<>> THEN [ok |-> FALSE, exc |-> "KeyError", decl |-> Preamble]
      ELSE IF \E i \in 1..Len(cls.members) :
                /\ cls.members[i].indict
                /\ ~cls.members[i].private
                /\ cls.members[i].ann = Empty
        THEN [ok |-> FALSE, exc |-> "AssertionError", decl |-> Preamble]
      ELSE IF \E i \in 1..Len(fields) : ~types[i].ok
        THEN [ok |-> FALSE, exc |-> "TypeError", decl |-> Preamble]
      ELSE [ok |-> TRUE, exc |-> "",
            decl |-> Decl("struct", cls.name, <<>>, ParamDecls(fields, types), "ok")]

-----------------------------------------------------------------------------
(* The device compiler, cl.Program(ctx, source).build(): it rejects a      *)
(* source that defines a function, kernel or type name twice, or that      *)
(* holds a malformed body.                                                 *)
Defines(d) == d.kind \in {"function", "kernel", "struct"}

Builds(src) ==
  /\ \A i \in 1..Len(src) : src[i].body = "ok"
  /\ \A i \in 1..Len(src) : Defines(src[i]) => src[i].name \notin PreambleNames
  /\ \A i, j \in 1..Len(src) :
       (i < j /\ Defines(src[i]) /\ Defines(src[j])) => src[i].name # src[j].name

(* A variant in which a Dispatcher is given a program of the accumulator   *)
(* when it is declared.                                                    *)
ProgramAtDeclaration == [built |-> TRUE, src |-> code, d |-> 0, n |-> 0]

NoProgram == [built |-> FALSE, src |-> <<>>, d |-> 0, n |-> 0]
Program(src, d, n) == [built |-> TRUE, src |-> src, d |-> d, n |-> n]

-----------------------------------------------------------------------------
(* Call arguments.  A host integer N is held as two limbs, N = hi * 2^16 + *)
(* lo with 0 <= lo < 2^16, so that values beyond 32 bits can be written.   *)
(* kind is "array" (a pyopencl Array: buf its device buffer, lo its        *)
(* contents), "buffer" (a device buffer handle), "ndarray" (a host array,  *)
(* lo its contents), "int" (a host integer), "int32" (a numpy int32),      *)
(* "float32" (a numpy float32) or "image" (a device image handle).         *)

LimbBits == 16
Limb == 2 ^ LimbBits
HalfLimb == 2 ^ (LimbBits - 1)

Val(k, hi, lo, buf) == [kind |-> k, hi |-> hi, lo |-> lo, buf |-> buf]

Array(buf, contents) == Val("array", 0, contents, buf)
HostInt(hi, lo) == Val("int", hi, lo, "")

(* a.data and a.get() of a pyopencl Array. *)
data(a) == Val("buffer", 0, 0, a.buf)
get(a) == Val("ndarray", 0, a.lo, "")

InInt32(a) == -HalfLimb <= a.hi /\ a.hi < HalfLimb

(* np.int32(a) of a host integer: the value itself when it fits; beyond    *)
(* the range the result depends on the NumPy in use, which either wraps    *)
(* modulo 2^32 or raises OverflowError (policy is "wrap" or "raise").      *)
int32(a, policy) ==
  IF InInt32(a) THEN [ok |-> TRUE, exc |-> "", v |-> Val("int32", a.hi, a.lo, "")]
  ELSE IF policy = "wrap"
    THEN [ok |-> TRUE, exc |-> "",
          v |-> Val("int32", ((a.hi + HalfLimb) % Limb) - HalfLimb, a.lo, "")]
  ELSE [ok |-> FALSE, exc |-> "OverflowError", v |-> a]

(* A variant that passes the device buffer of every array. *)
resolve_arg_buffer(a, annotation, policy) ==
  LET a1 == IF a.kind = "array" THEN data(a) ELSE a
  IN  IF a1.kind = "int" THEN int32(a1, policy)
      ELSE [ok |-> TRUE, exc |-> "", v |-> a1]

resolve_arg(a, annotation, policy) ==
  LET a1 == IF a.kind = "array"
            THEN (IF annotation.kind = "list" THEN data(a) ELSE get(a))
            ELSE a
  IN  IF a1.kind = "int" THEN int32(a1, policy)
      ELSE [ok |-> TRUE, exc |-> "", v |-> a1]

Min(x, y) == IF x < y THEN x ELSE y

(* [resolve_arg(a, v.annotation) for a, (k, v) in zip(args, s)]: zip stops *)
(* at the shorter of the two.                                              *)
Resolved(args, s, policy) ==
  [i \in 1..Min(Len(args), Len(s)) |-> resolve_arg(args[i], s[i].ann, policy)]

(* math.prod of a sequence of extents. *)
RECURSIVE prod(_)
prod(xs) == IF xs = <<>> THEN 1 ELSE xs[1] * prod(Tail(xs))

(* A thread-count specification: [form, v], form "int" (v = <<T>>) or      *)
(* "seq" (v the list or tuple of extents).                                 *)
Threads(form, v) == [form |-> form, v |-> v]

(* A variant that takes the first extent instead of the product. *)
NumThreadsFirst(T) == T.v[1]

NumThreads(T) == IF T.form = "seq" THEN prod(T.v) ELSE T.v[1]

-----------------------------------------------------------------------------
(* The declarations, thread counts and argument lists the host program     *)
(* draws from.                                                             *)

float32 == Dtype("float32")
int32_t == Dtype("int32")
float4 == Dtype("float4")

KernelDefs ==
  { Def("k", <<Param("x", List(<<float32>>)), Param("n", int32_t)>>, Empty, "ok"),
    Def("k", <<Param("v", float4)>>, Empty, "ok"),
    Def("m", <<Param("x", List(<<float32>>)), Param("n", int32_t)>>, Empty, "ok"),
    Def("g", <<>>, Empty, "bad"),
    Def("h", <<Param("a", Empty)>>, Empty, "ok"),
    Def("h", <<>>, None, "ok") }

FunctionDefs ==
  { Def("f", <<>>, Empty, "ok"),
    Def("f", <<Param("p", List(<<float32>>))>>, None, "ok"),
    Def("f", <<>>, List(<<float32>>), "ok"),
    Def("f", <<Param("a", Empty)>>, None, "ok"),
    Def("f2", <<Param("a", float32), Param("p", List(<<image2d_t>>))>>, None, "ok") }

StructDefs ==
  { Cls("S", <<Member("x", FALSE, float32, FALSE), Member("_p", TRUE, int32_t, FALSE),
               Member("y", FALSE, float4, FALSE), Member("_q", TRUE, Empty, TRUE)>>),
    Cls("S", <<Member("x", FALSE, float32, FALSE), Member("y", FALSE, Empty, TRUE)>>) }

ThreadSpecs == { Threads("int", <<16>>), Threads("seq", <<4, 8>>) }

ArrayA == Array("bufA", 7)
Five == HostInt(0, 5)
Big == HostInt(HalfLimb, 0)
Float == Val("float32", 0, 3, "")

ArgLists ==
  { <<ArrayA, Five>>, <<ArrayA>>, <<ArrayA, Five, Five>>, <<Float, Big>> }

(* What NumPy does with an integer beyond the int32 range. *)
Policies == {"wrap", "raise"}

(* The last operation called and its outcome: "ok" when it returned, else  *)
(* the exception it raised.                                                *)
Last(op, result) == [op |-> op, result |-> result]

-----------------------------------------------------------------------------
Init ==
  /\ code = <<Preamble>>
  /\ registry = {}
  /\ dispatchers = <<>>
  /\ program = <<>>
  /\ compiles = <<>>
  /\ fns = {}
  /\ queue = <<>>
  /\ last = Last("init", "ok")
  /\ inflight = {}

(* Variants of the append: one that replaces an earlier declaration of the *)
(* same name, one that puts the new text first.                            *)
AppendedReplacing(c, decl) ==
  Append(SelectSeq(c, LAMBDA x : ~(x.kind = decl.kind /\ x.name = decl.name)), decl)

Prepended(c, decl) == <<decl>> \o c

(* __code__ += text *)
Appended(c, decl) == Append(c, decl)

(* Variants of the build test: one that builds on every call, one that     *)
(* builds again when the accumulator has grown since the last build.       *)
NeedsBuildAlways(p, c) == TRUE

NeedsBuildStale(p, c) == ~p.built \/ p.src # c

(* if program is None *)
NeedsBuild(p, c) == ~p.built

kernel_function(f) ==
  LET t == FunctionText(f, registry)
  IN  /\ t.ok => Len(code) <= MaxDecls
      /\ code' = IF t.ok THEN Appended(code, t.decl) ELSE code
      /\ last' = Last("kernel_function", IF t.ok THEN "ok" ELSE t.exc)
      /\ UNCHANGED <<registry, dispatchers, program, compiles, fns, queue, inflight>>

(* A variant that appends the kernel's header before it checks anything. *)
kernel_main_appending_first(f) ==
  LET t == KernelText(f, registry)
      header == Decl("kernel", f.name, <<"void">>, <<>>, f.doc)
  IN  /\ Len(code) <= MaxDecls
      /\ code' = IF t.ok THEN Appended(code, t.decl) ELSE Appended(code, header)
      /\ dispatchers' = IF t.ok
                        THEN Append(dispatchers, [name |-> f.name, s |-> f.params])
                        ELSE dispatchers
      /\ program' = IF t.ok THEN Append(program, NoProgram) ELSE program
      /\ compiles' = IF t.ok THEN Append(compiles, 0) ELSE compiles
      /\ last' = Last("kernel_main", IF t.ok THEN "ok" ELSE t.exc)
      /\ UNCHANGED <<registry, fns, queue, inflight>>

kernel_main(f) ==
  LET t == KernelText(f, registry)
  IN  /\ t.ok => Len(code) <= MaxDecls
      /\ code' = IF t.ok THEN Appended(code, t.decl) ELSE code
      /\ dispatchers' = IF t.ok
                        THEN Append(dispatchers, [name |-> f.name, s |-> f.params])
                        ELSE dispatchers
      /\ program' = IF t.ok THEN Append(program, NoProgram) ELSE program
      /\ compiles' = IF t.ok THEN Append(compiles, 0) ELSE compiles
      /\ last' = Last("kernel_main", IF t.ok THEN "ok" ELSE t.exc)
      /\ UNCHANGED <<registry, fns, queue, inflight>>

(* cltools.get_or_register_dtype(name, dtype) raises when the name is      *)
(* already registered to a different layout; it runs after the append.     *)
kernel_struct(cls) ==
  LET t == StructText(cls, registry)
      clash == \E r \in registry : r.name = cls.name /\ r.fields # t.decl.params
  IN  /\ t.ok => Len(code) <= MaxDecls
      /\ code' = IF t.ok THEN Appended(code, t.decl) ELSE code
      /\ registry' = IF t.ok /\ ~clash
                     THEN registry \cup {[name |-> cls.name, fields |-> t.decl.params]}
                     ELSE registry
      /\ last' = Last("kernel_struct",
                      IF ~t.ok THEN t.exc
                      ELSE IF clash THEN "RuntimeError" ELSE "ok")
      /\ UNCHANGED <<dispatchers, program, compiles, fns, queue, inflight>>

(* A variant of the indexing stage that resets the accumulator. *)
__getitem__resetting(d, T) ==
  LET fn == [d |-> d, num_threads |-> NumThreads(T), T |-> T]
  IN  /\ Cardinality(fns \cup {fn}) <= MaxFns
      /\ fns' = fns \cup {fn}
      /\ code' = <<Preamble>>
      /\ last' = Last("getitem", "ok")
      /\ UNCHANGED <<registry, dispatchers, program, compiles, queue, inflight>>

(* Dispatcher.__getitem__: the indexing stage returns a call-stage         *)
(* function that holds the dispatcher d and the flat thread count; T, the  *)
(* specification it was given, is kept for reference.                      *)
__getitem__(d, T) ==
  LET fn == [d |-> d, num_threads |-> NumThreads(T), T |-> T]
  IN  /\ Cardinality(fns \cup {fn}) <= MaxFns
      /\ fns' = fns \cup {fn}
      /\ last' = Last("getitem", "ok")
      /\ UNCHANGED <<code, registry, dispatchers, program, compiles, queue, inflight>>

(* A variant of dispatch_call in which a successful build is cached on     *)
(* every Dispatcher that has no program yet.                               *)
dispatch_call_shared(fn, args, policy) ==
  LET d == fn.d
      s == dispatchers[d].s
      need == NeedsBuild(program[d], code)
      rs == Resolved(args, s, policy)
      exc == FirstExc(rs)
      result == IF need /\ ~Builds(code) THEN "BuildError"
                ELSE IF exc # "" THEN exc
                ELSE IF Len(rs) # Len(s) THEN "ArgCountError"
                ELSE "ok"
  IN  /\ result = "ok" => Len(queue) < MaxQueue
      /\ need => compiles[d] < MaxBuilds
      /\ compiles' = IF need THEN [compiles EXCEPT ![d] = @ + 1] ELSE compiles
      /\ program' = IF need /\ Builds(code)
                    THEN [e \in DOMAIN program |->
                            IF program[e].built THEN program[e]
                            ELSE Program(code, d, compiles[d] + 1)]
                    ELSE program
      /\ queue' = IF result = "ok"
                  THEN Append(queue, [name |-> dispatchers[d].name,
                                      global_size |-> fn.num_threads,
                                      args |-> [i \in 1..Len(rs) |-> rs[i].v]])
                  ELSE queue
      /\ last' = Last("dispatch_call", result)
      /\ UNCHANGED <<code, registry, dispatchers, fns, inflight>>

(* A variant of dispatch_call that resolves the arguments first and builds *)
(* only when they are accepted.                                            *)
dispatch_call_resolving_first(fn, args, policy) ==
  LET d == fn.d
      s == dispatchers[d].s
      rs == Resolved(args, s, policy)
      exc == FirstExc(rs)
      argerr == exc # "" \/ Len(rs) # Len(s)
      need == NeedsBuild(program[d], code) /\ ~argerr
      result == IF exc # "" THEN exc
                ELSE IF argerr THEN "ArgCountError"
                ELSE IF need /\ ~Builds(code) THEN "BuildError"
                ELSE "ok"
  IN  /\ result = "ok" => Len(queue) < MaxQueue
      /\ need => compiles[d] < MaxBuilds
      /\ compiles' = IF need THEN [compiles EXCEPT ![d] = @ + 1] ELSE compiles
      /\ program' = IF need /\ Builds(code)
                    THEN [program EXCEPT ![d] = Program(code, d, compiles[d] + 1)]
                    ELSE program
      /\ queue' = IF result = "ok"
                  THEN Append(queue, [name |-> dispatchers[d].name,
                                      global_size |-> fn.num_threads,
                                      args |-> [i \in 1..Len(rs) |-> rs[i].v]])
                  ELSE queue
      /\ last' = Last("dispatch_call", result)
      /\ UNCHANGED <<code, registry, dispatchers, fns, inflight>>

(* dispatch_call of the call-stage function fn, called with args. *)
dispatch_call(fn, args, policy) ==
  LET d == fn.d
      s == dispatchers[d].s
      need == NeedsBuild(program[d], code)
      rs == Resolved(args, s, policy)
      exc == FirstExc(rs)
      result == IF need /\ ~Builds(code) THEN "BuildError"
                ELSE IF exc # "" THEN exc
                ELSE IF Len(rs) # Len(s) THEN "ArgCountError"
                ELSE "ok"
  IN  /\ result = "ok" => Len(queue) < MaxQueue
      /\ need => compiles[d] < MaxBuilds
      /\ compiles' = IF need THEN [compiles EXCEPT ![d] = @ + 1] ELSE compiles
      /\ program' = IF need /\ Builds(code)
                    THEN [program EXCEPT ![d] = Program(code, d, compiles[d] + 1)]
                    ELSE program
      /\ queue' = IF result = "ok"
                  THEN Append(queue, [name |-> dispatchers[d].name,
                                      global_size |-> fn.num_threads,
                                      args |-> [i \in 1..Len(rs) |-> rs[i].v]])
                  ELSE queue
      /\ last' = Last("dispatch_call", result)
      /\ UNCHANGED <<code, registry, dispatchers, fns, inflight>>

(* dispatch_call run by several execution contexts at once.  A context c   *)
(* in flight is a record [c, pc, fn, args, policy, need]: pc is the line   *)
(* it executes next, need what `program is None` gave it on line 143.      *)
Contexts == 1..MaxContexts

Idle(c) == \A r \in inflight : r.c # c

(* Line 143: the context enters dispatch_call and tests `program is None`. *)
dispatch_test(c, fn, args, policy) ==
  /\ Idle(c)
  /\ inflight' = inflight \cup
       {[c |-> c, pc |-> 144, fn |-> fn, args |-> args, policy |-> policy,
         need |-> NeedsBuild(program[fn.d], code)]}
  /\ last' = Last("dispatch_test", "ok")
  /\ UNCHANGED <<code, registry, dispatchers, program, compiles, fns, queue>>

(* Line 144: the context that found no program compiles the accumulator as *)
(* it is now and assigns the program; a rejected source ends the call.     *)
dispatch_build(r) ==
  LET d == r.fn.d
      ok == ~r.need \/ Builds(code)
  IN  /\ r.pc = 144
      /\ r.need => compiles[d] < MaxBuilds
      /\ compiles' = IF r.need THEN [compiles EXCEPT ![d] = @ + 1] ELSE compiles
      /\ program' = IF r.need /\ Builds(code)
                    THEN [program EXCEPT ![d] = Program(code, d, compiles[d] + 1)]
                    ELSE program
      /\ inflight' = IF ok THEN (inflight \ {r}) \cup {[r EXCEPT !.pc = 145]}
                     ELSE inflight \ {r}
      /\ last' = Last("dispatch_build", IF ok THEN "ok" ELSE "BuildError")
      /\ UNCHANGED <<code, registry, dispatchers, fns, queue>>

(* Lines 145-146: the context resolves its arguments and submits. *)
dispatch_submit(r) ==
  LET d == r.fn.d
      s == dispatchers[d].s
      rs == Resolved(r.args, s, r.policy)
      exc == FirstExc(rs)
      result == IF exc # "" THEN exc
                ELSE IF Len(rs) # Len(s) THEN "ArgCountError"
                ELSE "ok"
  IN  /\ r.pc = 145
      /\ result = "ok" => Len(queue) < MaxQueue
      /\ queue' = IF result = "ok"
                  THEN Append(queue, [name |-> dispatchers[d].name,
                                      global_size |-> r.fn.num_threads,
                                      args |-> [i \in 1..Len(rs) |-> rs[i].v]])
                  ELSE queue
      /\ inflight' = inflight \ {r}
      /\ last' = Last("dispatch_submit", result)
      /\ UNCHANGED <<code, registry, dispatchers, program, compiles, fns>>

Next ==
  \/ \E f \in FunctionDefs : kernel_function(f)
  \/ \E f \in KernelDefs : kernel_main(f)
  \/ \E cls \in StructDefs : kernel_struct(cls)
  \/ \E d \in 1..Len(dispatchers), T \in ThreadSpecs : __getitem__(d, T)
  \/ \E fn \in fns, args \in ArgLists, policy \in Policies :
       dispatch_call(fn, args, policy)

Spec == Init /\ [][Next]_vars

(* The host program that only declares. *)
NextDecl ==
  \/ \E f \in FunctionDefs : kernel_function(f)
  \/ \E f \in KernelDefs : kernel_main(f)
  \/ \E cls \in StructDefs : kernel_struct(cls)

SpecDecl == Init /\ [][NextDecl]_vars

(* The host program that declares the kernels named k only and dispatches *)
(* them with every thread count and argument list, on a NumPy that wraps.  *)
NextCall ==
  \/ \E f \in KernelDefs : f.name = "k" /\ kernel_main(f)
  \/ \E d \in 1..Len(dispatchers), T \in ThreadSpecs : __getitem__(d, T)
  \/ \E fn \in fns, args \in ArgLists : dispatch_call(fn, args, "wrap")

SpecCall == Init /\ [][NextCall]_vars

(* The host program that makes every declaration that is accepted, indexes *)
(* with one thread count and calls with the argument lists of two and of   *)
(* one argument.                                                           *)
NextBuild ==
  \/ \E f \in FunctionDefs : FunctionText(f, registry).ok /\ kernel_function(f)
  \/ \E f \in KernelDefs : KernelText(f, registry).ok /\ kernel_main(f)
  \/ \E cls \in StructDefs : StructText(cls, registry).ok /\ kernel_struct(cls)
  \/ \E d \in 1..Len(dispatchers) : __getitem__(d, Threads("int", <<16>>))
  \/ \E fn \in fns, args \in {<<ArrayA, Five>>, <<ArrayA>>} :
       dispatch_call(fn, args, "wrap")

SpecBuild == Init /\ [][NextBuild]_vars

(* The host program whose execution contexts call the call stage at the    *)
(* same time: it declares kernels named k, indexes with one thread count   *)
(* and every context calls with the argument lists of two and of one       *)
(* argument.                                                               *)
NextThreads ==
  \/ \E f \in KernelDefs : f.name = "k" /\ kernel_main(f)
  \/ \E d \in 1..Len(dispatchers) : __getitem__(d, Threads("int", <<16>>))
  \/ \E c \in Contexts, fn \in fns, args \in {<<ArrayA, Five>>, <<ArrayA>>} :
       dispatch_test(c, fn, args, "wrap")
  \/ \E r \in inflight : dispatch_build(r)
  \/ \E r \in inflight : dispatch_submit(r)

SpecThreads == Init /\ [][NextThreads]_vars

(* A declared function with a parameter that has no annotation. *)
Unannotated(f) == \E i \in 1..Len(f.params) : f.params[i].ann = Empty

(* The host program that declares the functions and kernels that are       *)
(* accepted and the ones with an unannotated parameter, indexes with one   *)
(* thread count and calls with the argument list of two arguments.         *)
NextSig ==
  \/ \E f \in FunctionDefs :
       (Unannotated(f) \/ FunctionText(f, registry).ok) /\ kernel_function(f)
  \/ \E f \in KernelDefs :
       (Unannotated(f) \/ KernelText(f, registry).ok) /\ kernel_main(f)
  \/ \E d \in 1..Len(dispatchers) : __getitem__(d, Threads("int", <<16>>))
  \/ \E fn \in fns : dispatch_call(fn, <<ArrayA, Five>>, "wrap")

SpecSig == Init /\ [][NextSig]_vars

-----------------------------------------------------------------------------
(* Properties.  A step is identified by the action that makes it: for a    *)
(* call-stage invocation, Calls(fn, args).                                 *)

Ds == 1..Len(dispatchers)

Calls(fn, args) == \E policy \in Policies : dispatch_call(fn, args, policy)

LastIs(op, result) == last = [op |-> op, result |-> result]

(* C1: once the first call-stage invocation on a Dispatcher has failed to  *)
(* build, the Dispatcher is in a terminal Failed state: a later call on it *)
(* raises the Build Error again and the device compiler is not invoked     *)
(* again, whatever was appended to the accumulator in between.             *)
C1_FailedIsTerminal ==
  [][\A d \in Ds :
       (~program[d].built /\ compiles[d] >= 1) =>
         /\ compiles'[d] = compiles[d]
         /\ \A fn \in fns, args \in ArgLists :
              (fn.d = d /\ Calls(fn, args)) => last'.result = "BuildError"]_vars

(* C2: once a Dispatcher has built its program, no later step invokes the  *)
(* device compiler for it again, and its cached program reference stays    *)
(* the same (it stays Ready).                                              *)
C2_NoRebuildOnceReady ==
  [][\A d \in Ds :
       program[d].built =>
         /\ program'[d] = program[d]
         /\ compiles'[d] = compiles[d]]_vars

(* The only Dispatcher has submitted once and has then been called again   *)
(* (a call that raised for its argument count): one compile in all.        *)
C2_Witness ==
  /\ Len(dispatchers) = 1
  /\ Len(queue) = 1
  /\ LastIs("dispatch_call", "ArgCountError")
  /\ program[1].built
  /\ compiles[1] = 1

(* C3: the source of a built Dispatcher's program is the accumulator       *)
(* content at the moment of its first successful build, and no later step  *)
(* (a declaration, an indexing or a call) changes it.                      *)
C3_BuiltSourceIsSnapshot ==
  [][\A d \in Ds :
       /\ (~program[d].built /\ program'[d].built) => program'[d].src = code
       /\ program[d].built => (program'[d].built /\ program'[d].src = program[d].src)]_vars

(* A call has just submitted through a program built before the            *)
(* accumulator grew.                                                       *)
C3_Witness ==
  /\ LastIs("dispatch_call", "ok")
  /\ Len(queue) = 1
  /\ \E d \in Ds :
       /\ dispatchers[d].name = queue[1].name
       /\ program[d].built
       /\ Len(program[d].src) < Len(code)
       /\ program[d].src = SubSeq(code, 1, Len(program[d].src))

(* The flat thread count a specification T stands for, case by case. *)
ExpectedThreads(T) ==
  IF T.form = "int" THEN T.v[1]
  ELSE IF Len(T.v) = 0 THEN 1
  ELSE IF Len(T.v) = 1 THEN T.v[1]
  ELSE IF Len(T.v) = 2 THEN T.v[1] * T.v[2]
  ELSE T.v[1] * T.v[2] * T.v[3]

(* C4: a successful call-stage invocation submits exactly one kernel       *)
(* invocation, and its global thread count is the T of the indexing call   *)
(* that returned the call-stage function: T itself for an integer, the     *)
(* product of the extents for a sequence ((4, 8) submits 32), whatever     *)
(* other indexing calls were made on the Dispatcher.                       *)
C4_ThreadCount ==
  [][\A fn \in fns, args \in ArgLists :
       (last'.result = "ok" /\ Calls(fn, args)) =>
         /\ Len(queue') = Len(queue) + 1
         /\ SubSeq(queue', 1, Len(queue)) = queue
         /\ queue'[Len(queue')].name = dispatchers[fn.d].name
         /\ queue'[Len(queue')].global_size = ExpectedThreads(fn.T)
         /\ (fn.T = Threads("seq", <<4, 8>>)) =>
              queue'[Len(queue')].global_size = 32]_vars

(* Two call-stage functions of one Dispatcher exist, indexed with (4, 8)   *)
(* and with 16; the one indexed with (4, 8) has been called and the queue  *)
(* holds one submission of 32 threads.                                     *)
C4_Witness ==
  /\ LastIs("dispatch_call", "ok")
  /\ Len(queue) = 1
  /\ queue[1].global_size = 32
  /\ \E f1, f2 \in fns :
       /\ f1.d = f2.d
       /\ dispatchers[f1.d].name = queue[1].name
       /\ f1.T = Threads("seq", <<4, 8>>)
       /\ f2.T = Threads("int", <<16>>)

(* C5: a call-stage invocation whose number of arguments differs from the  *)
(* length of the kernel's Signature raises and submits nothing.            *)
C5_ArgCountMismatchRaises ==
  [][\A fn \in fns, args \in ArgLists :
       (Calls(fn, args) /\ Len(args) # Len(dispatchers[fn.d].s)) =>
         (last'.result # "ok" /\ queue' = queue)]_vars

(* The signed 32-bit value of a host integer, limb by limb. *)
Wrapped(a) ==
  IF a.hi >= -HalfLimb /\ a.hi < HalfLimb THEN Val("int32", a.hi, a.lo, "")
  ELSE Val("int32", ((a.hi + HalfLimb) % Limb) - HalfLimb, a.lo, "")

(* C6: a host integer argument never makes the call raise: it is passed as *)
(* its signed 32-bit representation, wrapped modulo 2^32 when it is        *)
(* outside the range (2147483648 arrives as -2147483648).                  *)
C6_IntNarrowingWraps ==
  [][\A fn \in fns, args \in ArgLists, policy \in Policies :
       (/\ dispatch_call(fn, args, policy)
        /\ last'.result \notin {"BuildError", "ArgCountError"}) =>
         \A i \in 1..Min(Len(args), Len(dispatchers[fn.d].s)) :
           args[i].kind = "int" =>
             /\ last'.result = "ok"
             /\ queue'[Len(queue')].args[i] = Wrapped(args[i])
             /\ (args[i] = Big) =>
                  queue'[Len(queue')].args[i] = Val("int32", -HalfLimb, 0, "")]_vars

(* The signature of the end-to-end kernel: a pointer to float, an integer. *)
PointerAndInt(s) ==
  /\ Len(s) = 2
  /\ s[1].ann = List(<<float32>>)
  /\ s[2].ann = int32_t

(* The submission of the end-to-end scenario. *)
EndToEnd ==
  [name |-> "k",
   global_size |-> 16,
   args |-> <<[kind |-> "buffer", hi |-> 0, lo |-> 0, buf |-> "bufA"],
              [kind |-> "int32", hi |-> 0, lo |-> 5, buf |-> ""]>>]

(* C7: every submitted argument is the call's argument at the same         *)
(* position resolved against the Annotation at that position: an array     *)
(* with a pointer Annotation is its device buffer handle, an array with    *)
(* another Annotation is a host copy of its contents, a host integer is an *)
(* int32, any other value is itself.  [16](array, 5) on a kernel (pointer  *)
(* to float, integer) submits global size 16 with (buffer handle, int32 5).*)
C7_ArgumentResolution ==
  [][\A fn \in fns, args \in ArgLists :
       (last'.result = "ok" /\ Calls(fn, args)) =>
         LET e == queue'[Len(queue')]
             s == dispatchers[fn.d].s
         IN  /\ Len(queue') = Len(queue) + 1
             /\ Len(e.args) = Len(s)
             /\ \A i \in 1..Len(e.args) :
                  LET a == args[i]
                      ann == s[i].ann
                  IN  /\ (a.kind = "array" /\ ann.kind = "list") =>
                           e.args[i] = [kind |-> "buffer", hi |-> 0, lo |-> 0, buf |-> a.buf]
                      /\ (a.kind = "array" /\ ann.kind # "list") =>
                           e.args[i] = [kind |-> "ndarray", hi |-> 0, lo |-> a.lo, buf |-> ""]
                      /\ (a.kind = "int") =>
                           /\ e.args[i].kind = "int32"
                           /\ (a.hi \in -32768..32767) =>
                                (e.args[i].hi = a.hi /\ e.args[i].lo = a.lo)
                      /\ (a.kind \notin {"array", "int"}) => e.args[i] = a
             /\ (/\ PointerAndInt(s)
                 /\ dispatchers[fn.d].name = "k"
                 /\ fn.T = Threads("int", <<16>>)
                 /\ args = <<ArrayA, Five>>) => e = EndToEnd]_vars

(* The end-to-end scenario has run and is the only submission. *)
C7_Witness ==
  /\ LastIs("dispatch_call", "ok")
  /\ queue = <<EndToEnd>>
  /\ \E d \in Ds : PointerAndInt(dispatchers[d].s) /\ program[d].built

(* Two kernel entry points of one name have been declared. *)
DuplicateDeclared ==
  \E d1, d2 \in Ds : d1 < d2 /\ dispatchers[d1].name = dispatchers[d2].name

(* C8: once two kernel entry points of one name are declared, a call-stage *)
(* invocation on any Dispatcher that has no program yet gets a Build       *)
(* Error; a Dispatcher that already has its program never gets one.        *)
C8_DuplicateKernelBuildError ==
  [][\A fn \in fns, args \in ArgLists :
       Calls(fn, args) =>
         /\ (DuplicateDeclared /\ ~program[fn.d].built) =>
              (last'.result = "BuildError" /\ ~program'[fn.d].built)
         /\ program[fn.d].built => last'.result # "BuildError"]_vars

(* With two well-formed kernels of one name declared, the Dispatcher built *)
(* before the second declaration has submitted, and the first call on the  *)
(* other Dispatcher has just received the Build Error.                     *)
C8_Witness ==
  /\ DuplicateDeclared
  /\ \A i \in 1..Len(code) : code[i].body = "ok"
  /\ LastIs("dispatch_call", "BuildError")
  /\ Len(queue) = 1
  /\ \E d1, d2 \in Ds :
       /\ program[d1].built /\ Len(program[d1].src) < Len(code)
       /\ ~program[d2].built /\ compiles[d2] = 1

IsPrefix(a, b) == Len(a) <= Len(b) /\ SubSeq(b, 1, Len(a)) = a

DeclOps == {"kernel_function", "kernel_main", "kernel_struct"}

(* code' is code with one text of the given kind and name added at the end. *)
AppendsOne(kind, name) ==
  /\ Len(code') = Len(code) + 1
  /\ SubSeq(code', 1, Len(code)) = code
  /\ code'[Len(code')].kind = kind
  /\ code'[Len(code')].name = name

(* C9: the accumulator always starts with the preamble, which occurs once; *)
(* a step changes the accumulator only if it is a declaration, and then    *)
(* only by adding that declaration's text at the end, so the old content   *)
(* is a prefix of the new one.                                             *)
C9_AppendOnly ==
  /\ [](/\ Len(code) >= 1
        /\ code[1] = Preamble
        /\ \A i \in 2..Len(code) : code[i].kind # "preamble")
  /\ [][/\ IsPrefix(code, code')
        /\ (code' # code) => (last'.op \in DeclOps /\ Len(code') = Len(code) + 1)
        /\ \A f \in FunctionDefs :
             (kernel_function(f) /\ last'.result = "ok") => AppendsOne("function", f.name)
        /\ \A f \in KernelDefs :
             (kernel_main(f) /\ last'.result = "ok") => AppendsOne("kernel", f.name)
        /\ \A cls \in StructDefs :
             (kernel_struct(cls) /\ last'.result = "ok") => AppendsOne("struct", cls.name)]_vars

(* Two declarations of one name, both kept, in registration order after    *)
(* the preamble.                                                           *)
C9_Witness ==
  /\ Len(code) = 3
  /\ code[1] = Preamble
  /\ code[2].name = code[3].name
  /\ code[2] # code[3]
  /\ last.op \in DeclOps /\ last.result = "ok"

(* An annotation that is a pointer descriptor: a single-element list. *)
IsPointer(a) == a.kind = "list" /\ Len(a.elems) = 1

(* C10: kernel_function fails at declaration time, appending nothing, when *)
(* a parameter Annotation or the return Annotation is a pointer            *)
(* descriptor, whatever the list wraps; kernel_main with pointer           *)
(* parameters succeeds.                                                    *)
C10_AuxPointerRejected ==
  [][/\ \A f \in FunctionDefs :
          (/\ kernel_function(f)
           /\ \/ IsPointer(f.ret)
              \/ \E i \in 1..Len(f.params) : IsPointer(f.params[i].ann)) =>
            (last'.result # "ok" /\ code' = code)
     /\ \A f \in KernelDefs :
          (/\ kernel_main(f)
           /\ f.ret = Empty
           /\ \E i \in 1..Len(f.params) : IsPointer(f.params[i].ann)
           /\ \A i \in 1..Len(f.params) : f.params[i].ann # Empty) =>
            last'.result = "ok"]_vars

(* C11: kernel_function and kernel_main raise the assertion of the         *)
(* signature extractor, declaring nothing, whenever a parameter of the     *)
(* declared function has no annotation; every Dispatcher therefore holds a *)
(* fully annotated signature, and the indexing stage and the call stage    *)
(* never raise that assertion.                                             *)
C11_UnannotatedRejectedOnce ==
  /\ [](\A d \in Ds : \A i \in 1..Len(dispatchers[d].s) :
          dispatchers[d].s[i].ann # Empty)
  /\ [][/\ \A f \in FunctionDefs :
             (Unannotated(f) /\ kernel_function(f)) =>
               (last'.result = "AssertionError" /\ code' = code)
        /\ \A f \in KernelDefs :
             (Unannotated(f) /\ kernel_main(f)) =>
               /\ last'.result = "AssertionError"
               /\ code' = code
               /\ dispatchers' = dispatchers
        /\ (last'.op \in {"getitem", "dispatch_call"}) =>
             last'.result # "AssertionError"]_vars

(* A kernel has been declared, indexed and called with success, and the    *)
(* declaration of a kernel with an unannotated parameter has then been     *)
(* rejected.                                                               *)
C11_Witness ==
  /\ LastIs("kernel_main", "AssertionError")
  /\ Len(dispatchers) = 1
  /\ Len(code) = 2
  /\ Len(queue) = 1

(* The public annotated members of a struct declaration, in order. *)
PublicAnnotated(ms) == SelectSeq(ms, LAMBDA x : ~x.private /\ x.ann # Empty)

Names(ms) == [i \in 1..Len(ms) |-> ms[i].name]

(* C12: the layout kernel_struct generates has exactly the public          *)
(* annotated fields of the declaration, in declaration order, whatever     *)
(* private members it has; a declaration with a non-private member that    *)
(* has no annotation fails and appends nothing.                            *)
C12_StructLayout ==
  [][\A cls \in StructDefs :
       kernel_struct(cls) =>
         /\ (\E i \in 1..Len(cls.members) :
               ~cls.members[i].private /\ cls.members[i].ann = Empty) =>
              (last'.result # "ok" /\ code' = code)
         /\ (code' # code) =>
              Names(code'[Len(code')].params) = Names(PublicAnnotated(cls.members))]_vars

(* C13: the device compiler is invoked at most once for a Dispatcher that  *)
(* gets its program, also when several execution contexts make their first *)
(* call-stage invocation on it at the same time: no interleaving compiles  *)
(* twice for one Dispatcher.                                               *)
C13_AtMostOneBuild ==
  \A d \in Ds : program[d].built => compiles[d] <= 1

(* C14: a call-stage invocation, whether its build succeeds or fails,      *)
(* changes the program and the compile count of its own Dispatcher only;   *)
(* the program a Dispatcher gets is the one its own call compiled from the *)
(* accumulator.                                                            *)
C14_BuildIsPerDispatcher ==
  [][\A fn \in fns, args \in ArgLists :
       (last'.op = "dispatch_call" /\ Calls(fn, args)) =>
         /\ \A d \in Ds \ {fn.d} :
              program'[d] = program[d] /\ compiles'[d] = compiles[d]
         /\ (~program[fn.d].built /\ program'[fn.d].built) =>
              /\ program'[fn.d].d = fn.d
              /\ program'[fn.d].src = code
              /\ compiles'[fn.d] = compiles[fn.d] + 1]_vars

(* Two Dispatchers have each compiled once, on their own first call: the   *)
(* first before the second kernel was declared, the second afterwards, so  *)
(* each holds its own program, built from a different snapshot.            *)
C14_Witness ==
  /\ Len(dispatchers) = 2
  /\ program[1].built /\ compiles[1] = 1 /\ program[1].d = 1
  /\ program[2].built /\ compiles[2] = 1 /\ program[2].d = 2
  /\ Len(program[1].src) < Len(program[2].src)
  /\ LastIs("dispatch_call", "ok")

(* C15: a Dispatcher is declared without a program; no declaration and no  *)
(* indexing gives any Dispatcher a program or invokes the compiler; the    *)
(* step that gives a Dispatcher its program is a call-stage invocation,    *)
(* and the source it compiles is the whole accumulator of that moment.     *)
C15_OnlyCallBuilds ==
  [][/\ (last'.op # "dispatch_call") =>
          \A d \in Ds : program'[d] = program[d] /\ compiles'[d] = compiles[d]
     /\ \A d \in 1..Len(dispatchers') :
          d > Len(dispatchers) => (~program'[d].built /\ compiles'[d] = 0)
     /\ \A d \in Ds :
          (~program[d].built /\ program'[d].built) =>
            /\ last'.op = "dispatch_call"
            /\ program'[d].src = code
            /\ code' = code]_vars

(* The first call through a Dispatcher has compiled an accumulator that    *)
(* holds, after the kernel's own text, a function or struct declared       *)
(* between the kernel's declaration and that call.                         *)
C15_Witness ==
  /\ LastIs("dispatch_call", "ok")
  /\ Len(dispatchers) = 1
  /\ program[1].built /\ compiles[1] = 1
  /\ program[1].src = code
  /\ Len(code) = 3
  /\ code[2].kind = "kernel" /\ code[2].name = dispatchers[1].name
  /\ code[3].kind \in {"function", "struct"}

(* The declared function f with the return annotation None. *)
ReturningNone(f) == [f EXCEPT !.ret = None]

(* C16: kernel_function accepts a function that carries no return         *)
(* annotation (and that it accepts when annotated -> None), and the text   *)
(* it appends has the void return type.                                    *)
C16_NoReturnIsVoid ==
  [][\A f \in FunctionDefs :
       (/\ kernel_function(f)
        /\ f.ret = Empty
        /\ FunctionText(ReturningNone(f), registry).ok) =>
         /\ last'.result = "ok"
         /\ AppendsOne("function", f.name)
         /\ code'[Len(code')].ret = <<"void">>]_vars

(* A pointer to a numeric type: the pointer kernel_function rejects. *)
DtypePointer(a) == IsPointer(a) /\ a.elems[1].kind = "dtype"

ForbiddenPointer(f) ==
  \/ DtypePointer(f.ret)
  \/ \E i \in 1..Len(f.params) : DtypePointer(f.params[i].ann)

PublicUnannotated(cls) ==
  \E i \in 1..Len(cls.members) :
    ~cls.members[i].private /\ cls.members[i].ann = Empty

(* The exceptions a declaration raises for a contract violation: a failed  *)
(* assertion, or a descriptor that is no layout or no known type.          *)
ContractViolations == {"AssertionError", "KeyError", "ValueError", "TypeError"}

(* C17: a declaration that raises a contract violation leaves the          *)
(* accumulator, the Dispatchers and the registered types as they were; the *)
(* declarations with an unannotated parameter, with a forbidden pointer,   *)
(* with a kernel return annotation and with an unannotated public field    *)
(* all fail so.                                                            *)
C17_FailedDeclarationAppendsNothing ==
  [][/\ (last'.op \in DeclOps /\ last'.result \in ContractViolations) =>
          /\ code' = code
          /\ dispatchers' = dispatchers
          /\ program' = program
          /\ registry' = registry
     /\ \A f \in FunctionDefs :
          (kernel_function(f) /\ (Unannotated(f) \/ ForbiddenPointer(f))) =>
            last'.result = "AssertionError"
     /\ \A f \in KernelDefs :
          (kernel_main(f) /\ (Unannotated(f) \/ f.ret # Empty)) =>
            last'.result = "AssertionError"
     /\ \A cls \in StructDefs :
          (kernel_struct(cls) /\ PublicUnannotated(cls)) =>
            last'.result = "AssertionError"]_vars

(* After a kernel and a struct were declared, a kernel declaration has     *)
(* been rejected by an assertion: the accumulator holds the preamble and   *)
(* the two accepted texts.                                                 *)
C17_Witness ==
  /\ LastIs("kernel_main", "AssertionError")
  /\ Len(code) = 3
  /\ Len(dispatchers) = 1
  /\ code[2].kind = "kernel"
  /\ code[3].kind = "struct"

(* C18: the indexing stage and the call stage, with the build a call may   *)
(* run and whatever its outcome, leave the accumulator as it is.           *)
C18_StagesKeepAccumulator ==
  [][/\ \A d \in Ds, T \in ThreadSpecs :
          (last'.op = "getitem" /\ __getitem__(d, T)) => code' = code
     /\ \A fn \in fns, args \in ArgLists :
          (last'.op = "dispatch_call" /\ Calls(fn, args)) => code' = code
     /\ (\E d \in Ds : compiles'[d] # compiles[d]) => code' = code]_vars

(* Both Dispatchers of two kernels of one name have been indexed and       *)
(* called, both builds failed, and the accumulator still holds the         *)
(* preamble and the two kernels.                                           *)
C18_Witness ==
  /\ LastIs("dispatch_call", "BuildError")
  /\ Len(code) = 3
  /\ code[1] = Preamble
  /\ code[2].kind = "kernel" /\ code[3].kind = "kernel"
  /\ Len(dispatchers) = 2
  /\ compiles[1] = 1 /\ compiles[2] = 1
  /\ ~program[1].built /\ ~program[2].built

(* C19: a call-stage invocation on a Dispatcher without a program builds   *)
(* before it resolves and submits: when the accumulator compiles, the      *)
(* Dispatcher has its program after the call whatever the call then        *)
(* raised; and a call that submits through a Dispatcher that has its       *)
(* program compiles nothing.                                               *)
C19_BuildPrecedesResolution ==
  [][\A fn \in fns, args \in ArgLists :
       (last'.op = "dispatch_call" /\ Calls(fn, args)) =>
         /\ (~program[fn.d].built /\ Builds(code)) =>
              /\ program'[fn.d].built
              /\ compiles'[fn.d] = compiles[fn.d] + 1
              /\ last'.result # "BuildError"
         /\ (program[fn.d].built /\ last'.result = "ok") =>
              /\ compiles' = compiles
              /\ program' = program
              /\ Len(queue') = Len(queue) + 1]_vars

(* The first call through the only Dispatcher has built the program and    *)
(* has then raised for its argument count: nothing is submitted and the    *)
(* Dispatcher has its program.                                             *)
C19_Witness ==
  /\ LastIs("dispatch_call", "ArgCountError")
  /\ Len(dispatchers) = 1
  /\ queue = <<>>
  /\ program[1].built
  /\ compiles[1] = 1

====
